---------------------------- MODULE Spec2Model ----------------------------
(***************************************************************************)
(* Model of the examples of the repository.                                *)
(*                                                                         *)
(*  - queue.Queue (put / get / task_done / join, maxsize) as it is used by *)
(*    src/queue.py and src/queue2.py;                                      *)
(*  - MyQueue and the polling Worker, consumer1 / consumer2 / consumer3;   *)
(*  - ClosableQueue (close, __iter__) and StoppableWorker (run);           *)
(*  - the driver that injects the items and runs the close/join cascade.   *)
(*                                                                         *)
(* Spec is the script src/queue.py from its first statement to the point   *)
(* where it stops.  SpecPipeline is ClosableQueue.__iter__ and             *)
(* StoppableWorker.run executing concurrently with the injection loop and  *)
(* the cascade of the driver.  SpecScenario and SpecStage are the same two  *)
(* classes with other funcs and with several workers on one queue;         *)
(* SpecNaiveFair is the script under fair scheduling.                      *)
(*                                                                         *)
(*  - src/lock.py: Counter and LockingCounter incremented by the threads   *)
(*    of run_threads (SpecUnlocked, SpecLocking);                          *)
(*  - src/prop_v_refactor_attr.py: the plain-attribute Bucket and the      *)
(*    property-based Bucket under the same fill / deduct calls             *)
(*    (SpecBucket);                                                        *)
(*  - src/coroutines.py: step_cell with a driver (SpecStepCell), simulate, *)
(*    Grid and live_a_generation (SpecLife).                               *)
(***************************************************************************)
EXTENDS Integers, Sequences, FiniteSets, TLC

(* ------------------------------ bounds -------------------------------- *)
\* range(1000) of the driver, bounded: the number of injected items.
MaxItems == 3
\* largest maxsize given to a stage input queue (0 = unbounded is always tried)
MaxCap == 2
\* Worker.polled_count is counted up to this value and then stays there
MaxPolled == 2
\* one queue with several workers: close() calls and items of its client
MaxCloses == 2
MaxStageItems == 2
MaxHowMany == 2
MaxHowManyUnlocked == 1
\* Bucket(period=60), bounded: the period in ticks of the clock
Period == 1
\* largest amount given to fill / deduct, and number of such calls in a run
MaxAmount == 4
MaxCalls == 3
\* largest Grid(height, width) tried, and calls of live_a_generation in a run
MaxHeight == 2
MaxWidth == 3
MaxGens == 2
\* the three-stage example: the items 1 .. ScenarioItems are submitted to
\* stage queues of maxsize ScenarioCap
ScenarioItems == 5
ScenarioCap == 2

(* ----------------------------- constants ------------------------------ *)
\* ClosableQueue.SENTINEL = object(): a value distinct from every item.
SENTINEL == 0

\* The three StoppableWorker threads of the list `threads`, in order.
SW == 1 .. 3

\* The four ClosableQueue objects, in pipeline order.
DOWNLOAD == "download_queue"
RESIZE == "resize_queue"
UPLOAD == "upload_queue"
DONE == "done_queue"
\* The three plain Queue objects of the consumer1/2/3 examples:
\* queue = Queue(), queue = Queue(1), in_queue = Queue().
QUEUE_A == "queue"
QUEUE_B == "queue(1)"
IN_QUEUE == "in_queue"
QIds == {DOWNLOAD, RESIZE, UPLOAD, DONE, QUEUE_A, QUEUE_B, IN_QUEUE}
\* the input queues of the three stages
StageQueues == {DOWNLOAD, RESIZE, UPLOAD}

\* The three polling Worker threads of the first list `threads`, and the four
\* MyQueue objects download_queue .. done_queue they connect (1 .. 4).
NW == 1 .. 3
MyQueues == 1 .. 4
NIn(w) == w
NOut(w) == w + 1

\* The threads made by Thread(target=consumer1 / consumer2 / consumer3).
Consumers == {"consumer1", "consumer2", "consumer3"}

\* object() items are pairwise distinct: item k is the k-th one injected.
Items == 1 .. MaxItems

\* run_threads: `for i in range(5)`: the five threads, numbered from 1.
NumThreads == 5
LT == 1 .. NumThreads

VARIABLES
    qitems,      \* Queue.queue: the pending values of each queue, oldest first
    unfinished,  \* Queue.unfinished_tasks of each queue
    maxsize,     \* Queue.maxsize of each queue (0: unbounded)
    mpc,         \* position of the main thread in the driver
    mi,          \* number of items the main thread has put so far
    nitems,      \* the N of `for _ in range(N)`
    finished,    \* the value printed by the last line (done_queue.qsize()), -1 before
    spc,         \* position of each StoppableWorker in run / __iter__
    sitem,       \* the value each StoppableWorker holds (`item`), SENTINEL if none yet
    raises,      \* the <<worker, item>> pairs on which the supplied func raises
    putLog,      \* history: every value ever put on each queue, in order
    getLog,      \* history: every value ever returned by get, per queue, in order
    doneLog,     \* history: the value each task_done call answers for, per queue
    myq,         \* MyQueue.items of the four hand-written queues
    npc,         \* position of each polling Worker in run
    nheld,       \* the item each polling Worker holds (`item`)
    polled_count, \* Worker.polled_count (saturating at MaxPolled)
    work_done,   \* Worker.work_done
    processed,   \* `processed` of the first driver, -1 before it is assigned
    cpc,         \* position of the consumer1 / consumer2 / consumer3 threads
    funcs,       \* the funcs given to the workers: "identity" (download, resize,
                 \* upload) or "arith" (double, increment, negate)
    shared,      \* TRUE: the started workers all serve one stage
                 \* (in_queue = download_queue, out_queue = resize_queue)
    nworkers,    \* number of workers started on that stage
    ncloses,     \* number of close() calls the client of that stage makes
    nclosed,     \* close() calls made so far
    misuse,      \* what else that client does: "none", "late_put", "extra_task_done"
    count,       \* counter.count
    lock,        \* LockingCounter.lock: the thread holding it, 0 when free
    tpc,         \* position of each thread of run_threads in worker / increment
    ti,          \* increments each thread has completed (the loop variable `_`)
    ttmp,        \* the value of self.count each thread has read
    lpc,         \* position of the main thread in run_threads
    li,          \* threads started, then threads joined, by run_threads so far
    locking,     \* TRUE: counter is a LockingCounter, FALSE: a Counter
    how_many,    \* how_many
    quota,       \* Bucket.quota of the plain-attribute Bucket
    max_quota,   \* Bucket.max_quota of the property-based Bucket
    quota_consumed, \* Bucket.quota_consumed of the property-based Bucket
    elapsed,     \* datetime.now() - bucket.reset_time, counted up to Period + 1
    ret_plain,   \* what the last deduct returned on the plain Bucket ("none" before)
    ret_prop,    \* what the last deduct returned on the property-based Bucket
    berr,        \* "none", or the assert of the quota setter that has failed
    lapsed,      \* TRUE once a call has found the period expired
    ncalls,      \* fill / deduct calls made so far
    height,      \* Grid.height / the height given to simulate
    width,       \* Grid.width / the width given to simulate
    rows,        \* grid.rows
    rows0,       \* grid.rows as they were when live_a_generation was called
    progeny,     \* progeny.rows
    gitem,       \* `item`: the value the generator has yielded last
    gy,          \* y of the step_cell that is running
    gx,          \* x of the step_cell that is running
    gstep,       \* number of values that step_cell has yielded so far
    gstate,      \* `state` of step_cell
    gans,        \* the answers count_neighbors has received, in order
    yielded,     \* history: the values a step_cell under test has yielded
    sent,        \* history: the values its driver has sent
    lgpc,        \* position of the driver of the generator
    nticks,      \* TICKs yielded by sim during the current call of live_a_generation
    gens         \* calls of live_a_generation that have returned

\* the state of the standard queues, of the StoppableWorker pipeline, of the
\* hand-written pipeline and of the three consumer threads
naiveVars == <<myq, npc, nheld, polled_count, work_done, processed>>
workerVars == <<spc, sitem>>
paramVars == <<maxsize, nitems, raises>>
stageVars == <<shared, nworkers, ncloses, nclosed, misuse>>
lockVars == <<count, lock, tpc, ti, ttmp, lpc, li, locking, how_many>>
\* what the steps of src/queue.py leave alone
bucketVars == <<quota, max_quota, quota_consumed, elapsed, ret_plain, ret_prop,
                berr, lapsed, ncalls>>
lifeVars == <<height, width, rows, rows0, progeny, gitem, gy, gx, gstep, gstate,
              gans, yielded, sent, lgpc, nticks, gens>>
restVars == <<bucketVars, lifeVars>>
otherVars == <<funcs, stageVars, lockVars, restVars>>

vars == <<qitems, unfinished, maxsize, mpc, mi, nitems, finished,
          spc, sitem, raises, putLog, getLog, doneLog,
          myq, npc, nheld, polled_count, work_done, processed, cpc,
          funcs, shared, nworkers, ncloses, nclosed, misuse,
          count, lock, tpc, ti, ttmp, lpc, li, locking, how_many,
          quota, max_quota, quota_consumed, elapsed, ret_plain, ret_prop,
          berr, lapsed, ncalls,
          height, width, rows, rows0, progeny, gitem, gy, gx, gstep, gstate,
          gans, yielded, sent, lgpc, nticks, gens>>
\* the state of src/queue.py
pipeVars == <<qitems, unfinished, maxsize, mpc, mi, nitems, finished,
              spc, sitem, raises, putLog, getLog, doneLog,
              naiveVars, cpc, funcs, stageVars>>
\* what the steps of src/lock.py leave alone
queueVars == <<pipeVars, restVars>>

(* ------------------------------ wiring --------------------------------- *)
\* variant: the second worker is wired to download_queue as well, so that
\* two workers consume one queue
InQueue_SharedDownload(w) == IF w = 3 THEN UPLOAD ELSE DOWNLOAD

\* StoppableWorker(func, in_queue, out_queue): the wiring of `threads`, or,
\* for workers that all serve the first stage, that stage's two queues.
InQueue(w) == IF shared THEN DOWNLOAD
              ELSE CASE w = 1 -> DOWNLOAD [] w = 2 -> RESIZE [] OTHER -> UPLOAD
OutQueue(w) == IF shared THEN RESIZE
               ELSE CASE w = 1 -> RESIZE [] w = 2 -> UPLOAD [] OTHER -> DONE

(* --------------------------- queue.Queue ------------------------------- *)
\* Queue._qsize / Queue.full
QSize(q) == Len(qitems[q])
\* variant: a queue that never counts as full (maxsize not passed on)
Full_Never(q) == FALSE
Full(q) == maxsize[q] > 0 /\ QSize(q) >= maxsize[q]

\* put(item): waits while the queue is full, appends, counts the task.
QueuePut(q, v) ==
    /\ ~Full(q)
    /\ qitems' = [qitems EXCEPT ![q] = Append(@, v)]
    /\ unfinished' = [unfinished EXCEPT ![q] = @ + 1]
    /\ putLog' = [putLog EXCEPT ![q] = Append(@, v)]

\* get(): waits while the queue is empty, removes and returns the oldest value.
\* It leaves unfinished_tasks alone.
QueueGet(q) ==
    /\ qitems[q] # << >>
    /\ qitems' = [qitems EXCEPT ![q] = Tail(@)]
    /\ getLog' = [getLog EXCEPT ![q] = Append(@, Head(qitems[q]))]

\* variant: task_done never raises
TaskDoneFails_Never(q) == FALSE
\* task_done(): one task less; ValueError when called too many times.
TaskDoneFails(q) == unfinished[q] <= 0
QueueTaskDone(q, v) ==
    /\ unfinished' = [unfinished EXCEPT ![q] = IF TaskDoneFails(q) THEN @ ELSE @ - 1]
    /\ doneLog' = [doneLog EXCEPT ![q] = IF TaskDoneFails(q) THEN @ ELSE Append(@, v)]

\* variant: join that waits for the queue to be empty instead
QueueJoinReturns_WhenEmpty(q) == qitems[q] = << >>
\* join(): returns when unfinished_tasks is zero.
QueueJoinReturns(q) == unfinished[q] = 0

(* ------------------- ClosableQueue / StoppableWorker ------------------- *)
\* variant: the identity test never succeeds
IsSentinel_Never(v) == FALSE
\* `if item is self.SENTINEL`
IsSentinel(v) == v = SENTINEL

\* the transforms of the three-stage example: double, increment, negate
Double(x) == x + x
Increment(x) == x + 1
Negate(x) == 0 - x
Arith(w, x) == CASE w = 1 -> Double(x) [] w = 2 -> Increment(x) [] OTHER -> Negate(x)

\* download / resize / upload: `return item`; or the func given instead
Func(w, item) == IF funcs = "arith" THEN Arith(w, item) ELSE item

\* does the func handed to worker w raise for this item?
FuncRaises(w, item) == <<w, item>> \in raises

\* variant: task_done is called right after get, before the item is yielded
SW_Get_EarlyDone(w) ==
    /\ spc[w] = "get"
    /\ qitems[InQueue(w)] # << >>
    /\ qitems' = [qitems EXCEPT ![InQueue(w)] = Tail(@)]
    /\ getLog' = [getLog EXCEPT ![InQueue(w)] = Append(@, Head(qitems[InQueue(w)]))]
    /\ unfinished' = [unfinished EXCEPT ![InQueue(w)] = @ - 1]
    /\ doneLog' = [doneLog EXCEPT ![InQueue(w)] = Append(@, Head(qitems[InQueue(w)]))]
    /\ sitem' = [sitem EXCEPT ![w] = Head(qitems[InQueue(w)])]
    /\ spc' = [spc EXCEPT ![w] =
                 IF IsSentinel(Head(qitems[InQueue(w)])) THEN "exited" ELSE "body"]
    /\ UNCHANGED <<maxsize, mpc, mi, nitems, finished, raises, putLog,
                   naiveVars, cpc, otherVars>>

\* __iter__: item = self.get(); a sentinel goes to `return` (through finally),
\* anything else is yielded to the body of the for loop in run.
SW_Get(w) ==
    /\ spc[w] = "get"
    /\ QueueGet(InQueue(w))
    /\ sitem' = [sitem EXCEPT ![w] = Head(qitems[InQueue(w)])]
    /\ spc' = [spc EXCEPT ![w] =
                 IF IsSentinel(Head(qitems[InQueue(w)])) THEN "finally_return"
                                                          ELSE "body"]
    /\ UNCHANGED <<unfinished, maxsize, mpc, mi, nitems, finished, raises,
                   putLog, doneLog,
                   naiveVars, cpc, otherVars>>

\* variant: the item is forwarded instead of the result
SW_Body_PutsItem(w) ==
    /\ spc[w] = "body"
    /\ ~FuncRaises(w, sitem[w])
    /\ QueuePut(OutQueue(w), sitem[w])
    /\ spc' = [spc EXCEPT ![w] = "finally_next"]
    /\ UNCHANGED <<maxsize, mpc, mi, nitems, finished, sitem, raises,
                   getLog, doneLog,
                   naiveVars, cpc, otherVars>>

\* run: result = self.func(item); self.out_queue.put(result)
SW_Body(w) ==
    /\ spc[w] = "body"
    /\ ~FuncRaises(w, sitem[w])
    /\ QueuePut(OutQueue(w), Func(w, sitem[w]))
    /\ spc' = [spc EXCEPT ![w] = "finally_next"]
    /\ UNCHANGED <<maxsize, mpc, mi, nitems, finished, sitem, raises,
                   getLog, doneLog,
                   naiveVars, cpc, otherVars>>

\* variant: __iter__ without try/finally, the exception ends the thread at once
SW_BodyRaises_NoFinally(w) ==
    /\ spc[w] = "body"
    /\ FuncRaises(w, sitem[w])
    /\ spc' = [spc EXCEPT ![w] = "died"]
    /\ UNCHANGED <<qitems, unfinished, maxsize, mpc, mi, nitems, finished,
                   sitem, raises, putLog, getLog, doneLog,
                   naiveVars, cpc, otherVars>>

\* run: self.func(item) raises. Nothing in run catches it: the frame of run
\* unwinds, which closes the suspended generator (its finally clause runs).
SW_BodyRaises(w) ==
    /\ spc[w] = "body"
    /\ FuncRaises(w, sitem[w])
    /\ spc' = [spc EXCEPT ![w] = "finally_unwind"]
    /\ UNCHANGED <<qitems, unfinished, maxsize, mpc, mi, nitems, finished,
                   sitem, raises, putLog, getLog, doneLog,
                   naiveVars, cpc, otherVars>>

\* where the generator goes after its finally clause
AfterFinally(p) ==
    CASE p = "finally_next" -> "get"          \* while True: next get
      [] p = "finally_return" -> "exited"     \* return: run ends, thread ends
      [] OTHER -> "died"                      \* the exception leaves run

\* variant: task_done called on the worker's output queue
SW_TaskDone_OnOutQueue(w) ==
    /\ spc[w] \in {"finally_next", "finally_return", "finally_unwind"}
    /\ QueueTaskDone(OutQueue(w), sitem[w])
    /\ spc' = [spc EXCEPT ![w] = IF TaskDoneFails(OutQueue(w)) THEN "ValueError"
                                 ELSE AfterFinally(spc[w])]
    /\ UNCHANGED <<qitems, maxsize, mpc, mi, nitems, finished, sitem, raises,
                   putLog, getLog,
                   naiveVars, cpc, otherVars>>

\* __iter__: finally: self.task_done()
SW_TaskDone(w) ==
    /\ spc[w] \in {"finally_next", "finally_return", "finally_unwind"}
    /\ QueueTaskDone(InQueue(w), sitem[w])
    /\ spc' = [spc EXCEPT ![w] = IF TaskDoneFails(InQueue(w)) THEN "ValueError"
                                 ELSE AfterFinally(spc[w])]
    /\ UNCHANGED <<qitems, maxsize, mpc, mi, nitems, finished, sitem, raises,
                   putLog, getLog,
                   naiveVars, cpc, otherVars>>

(* ------------------------------ driver --------------------------------- *)
\* for _ in range(N): download_queue.put(object())
Main_Put ==
    /\ mpc = "put"
    /\ mi < nitems
    /\ QueuePut(DOWNLOAD, mi + 1)
    /\ mi' = mi + 1
    /\ UNCHANGED <<maxsize, mpc, nitems, finished, spc, sitem, raises,
                   getLog, doneLog,
                   naiveVars, cpc, otherVars>>

\* variant: a close that does nothing on a queue already closed
Close_Idempotent(q) ==
    IF \E i \in 1 .. Len(putLog[q]) : putLog[q][i] = SENTINEL
      THEN UNCHANGED <<qitems, unfinished, putLog>>
      ELSE QueuePut(q, SENTINEL)
\* variant: a close that puts one sentinel for each worker of the stage
Close_PerWorker(q) ==
    /\ ~Full(q)
    /\ qitems' = [qitems EXCEPT ![q] = @ \o [i \in 1 .. nworkers |-> SENTINEL]]
    /\ unfinished' = [unfinished EXCEPT ![q] = @ + nworkers]
    /\ putLog' = [putLog EXCEPT ![q] = @ \o [i \in 1 .. nworkers |-> SENTINEL]]
\* close(): self.put(self.SENTINEL)
Close(q) == QueuePut(q, SENTINEL)

\* variant: every close of the cascade goes to download_queue
CloseOf_AlwaysDownload(p) == DOWNLOAD
\* the queue closed at each position of the cascade, and the position after it
CloseOf(p) == CASE p = "put" -> DOWNLOAD [] p = "close_resize" -> RESIZE
                [] OTHER -> UPLOAD
\* variant: the driver closes the next queue without joining this one
AfterClose_SkipJoin(p) == CASE p = "put" -> "close_resize"
                            [] p = "close_resize" -> "close_upload"
                            [] OTHER -> "join_upload"
AfterClose(p) == CASE p = "put" -> "join_download"
                   [] p = "close_resize" -> "join_resize"
                   [] OTHER -> "join_upload"

\* download_queue.close() / resize_queue.close() / upload_queue.close()
Main_Close ==
    /\ \/ mpc = "put" /\ mi = nitems
       \/ mpc \in {"close_resize", "close_upload"}
    /\ Close(CloseOf(mpc))
    /\ mpc' = AfterClose(mpc)
    /\ UNCHANGED <<maxsize, mi, nitems, finished, spc, sitem, raises,
                   getLog, doneLog,
                   naiveVars, cpc, otherVars>>

JoinOf(p) == CASE p = "join_download" -> DOWNLOAD [] p = "join_resize" -> RESIZE
               [] OTHER -> UPLOAD
AfterJoin(p) == CASE p = "join_download" -> "close_resize"
                  [] p = "join_resize" -> "close_upload"
                  [] OTHER -> "print"

\* variant: the joins of the cascade do not wait
Main_Join_NoWait ==
    /\ mpc \in {"join_download", "join_resize", "join_upload"}
    /\ mpc' = AfterJoin(mpc)
    /\ UNCHANGED <<qitems, unfinished, maxsize, mi, nitems, finished, spc,
                   sitem, raises, putLog, getLog, doneLog,
                   naiveVars, cpc, otherVars>>

\* download_queue.join() / resize_queue.join() / upload_queue.join()
Main_Join ==
    /\ mpc \in {"join_download", "join_resize", "join_upload"}
    /\ QueueJoinReturns(JoinOf(mpc))
    /\ mpc' = AfterJoin(mpc)
    /\ UNCHANGED <<qitems, unfinished, maxsize, mi, nitems, finished, spc,
                   sitem, raises, putLog, getLog, doneLog,
                   naiveVars, cpc, otherVars>>

\* print(done_queue.qsize(), 'items finished')
Main_Print ==
    /\ mpc = "print"
    /\ finished' = QSize(DONE)
    /\ mpc' = "end"
    /\ UNCHANGED <<qitems, unfinished, maxsize, mi, nitems, spc, sitem, raises,
                   putLog, getLog, doneLog,
                   naiveVars, cpc, otherVars>>

(* -------------------- MyQueue and the polling Worker ------------------- *)
\* variant: a put that loses the item
MyQueuePut_Drop(items, item) == items
\* MyQueue.put: with self.lock: self.items.append(item)
MyQueuePut(items, item) == Append(items, item)

\* MyQueue.get: with self.lock: return self.items.popleft()
\* popleft of an empty deque raises IndexError and removes nothing.
MyQueueGetRaises(items) == items = << >>
MyQueueGet(items) == [item |-> Head(items), rest |-> Tail(items)]

\* threading.Thread.start() raises RuntimeError("thread.__init__() not called")
\* unless Thread.__init__ has run.  Worker.__init__ calls super().__init__();
\* StoppableWorker.__init__ only names the attribute: `super().__init__`.
ThreadInitCalled(cls) == cls = "Worker"

Saturate(n) == IF n < MaxPolled THEN n + 1 ELSE MaxPolled

\* Worker.run: self.polled_count += 1; item = self.in_queue.get()
\* (IndexError: go to sleep; otherwise go on with the item)
N_Poll(w) ==
    /\ npc[w] = "poll"
    /\ polled_count' = [polled_count EXCEPT ![w] = Saturate(@)]
    /\ IF MyQueueGetRaises(myq[NIn(w)])
         THEN /\ npc' = [npc EXCEPT ![w] = "sleep"]
              /\ UNCHANGED <<myq, nheld>>
         ELSE /\ npc' = [npc EXCEPT ![w] = "work"]
              /\ nheld' = [nheld EXCEPT ![w] = MyQueueGet(myq[NIn(w)]).item]
              /\ myq' = [myq EXCEPT ![NIn(w)] = MyQueueGet(@).rest]
    /\ UNCHANGED <<qitems, unfinished, putLog, getLog, doneLog, paramVars,
                   workerVars, mpc, mi, finished, work_done, processed, cpc, otherVars>>

\* Worker.run: sleep(0.1), then the next round of the loop
N_Sleep(w) ==
    /\ npc[w] = "sleep"
    /\ npc' = [npc EXCEPT ![w] = "poll"]
    /\ UNCHANGED <<qitems, unfinished, putLog, getLog, doneLog, paramVars,
                   workerVars, mpc, mi, finished, myq, nheld, polled_count,
                   work_done, processed, cpc, otherVars>>

\* Worker.run: result = self.func(item); self.out_queue.put(result);
\* self.work_done += 1
N_Work(w) ==
    /\ npc[w] = "work"
    /\ myq' = [myq EXCEPT ![NOut(w)] = MyQueuePut(@, Func(w, nheld[w]))]
    /\ work_done' = [work_done EXCEPT ![w] = @ + 1]
    /\ npc' = [npc EXCEPT ![w] = "poll"]
    /\ UNCHANGED <<qitems, unfinished, putLog, getLog, doneLog, paramVars,
                   workerVars, mpc, mi, finished, nheld, polled_count,
                   processed, cpc, otherVars>>

(* ------------------- the script of src/queue.py ------------------------ *)
\* for thread in threads: thread.start()   (the polling Workers)
Main_StartWorkers ==
    /\ mpc = "n_start"
    /\ \E w \in NW :
         /\ npc[w] = "unstarted"
         /\ \A v \in NW : v < w => npc[v] # "unstarted"
         /\ IF ThreadInitCalled("Worker")
              THEN /\ npc' = [npc EXCEPT ![w] = "poll"]
                   /\ mpc' = IF w < 3 THEN "n_start"
                             ELSE IF nitems = 0 THEN "n_wait" ELSE "n_put"
              ELSE /\ mpc' = "RuntimeError"
                   /\ UNCHANGED npc
    /\ UNCHANGED <<qitems, unfinished, putLog, getLog, doneLog, paramVars,
                   workerVars, mi, finished, myq, nheld, polled_count,
                   work_done, processed, cpc, otherVars>>

\* objects = N; for _ in range(objects): download_queue.put(object())
Main_NPut ==
    /\ mpc = "n_put"
    /\ mi < nitems
    /\ myq' = [myq EXCEPT ![1] = MyQueuePut(@, mi + 1)]
    /\ mi' = mi + 1
    /\ mpc' = IF mi + 1 = nitems THEN "n_wait" ELSE "n_put"
    /\ UNCHANGED <<qitems, unfinished, putLog, getLog, doneLog, paramVars,
                   workerVars, finished, npc, nheld, polled_count, work_done,
                   processed, cpc, otherVars>>

\* while len(done_queue.items) < objects: pass
\* processed = len(done_queue.items)
Main_NWait ==
    /\ mpc = "n_wait"
    /\ ~(Len(myq[4]) < nitems)
    /\ processed' = Len(myq[4])
    /\ mpc' = "c1_start"
    /\ UNCHANGED <<qitems, unfinished, putLog, getLog, doneLog, paramVars,
                   workerVars, mi, finished, myq, npc, nheld, polled_count,
                   work_done, cpc, otherVars>>

\* the consumer thread and the queue of each of the three examples
ConsumerAt(p) == CASE p \in {"c1_start", "c1_join"} -> "consumer1"
                   [] p \in {"c2_start", "c2_join"} -> "consumer2"
                   [] OTHER -> "consumer3"
QueueAt(p) == CASE p = "c1_put" -> QUEUE_A
                [] p \in {"c2_put1", "c2_put2"} -> QUEUE_B
                [] OTHER -> IN_QUEUE
QueueOf(c) == CASE c = "consumer1" -> QUEUE_A [] c = "consumer2" -> QUEUE_B
                [] OTHER -> IN_QUEUE

\* thread = Thread(target=consumerN); thread.start()
Main_StartConsumer ==
    /\ mpc \in {"c1_start", "c2_start", "c3_start"}
    /\ cpc' = [cpc EXCEPT ![ConsumerAt(mpc)] =
                 IF ConsumerAt(mpc) = "consumer2" THEN "sleep" ELSE "get"]
    /\ mpc' = CASE mpc = "c1_start" -> "c1_put" [] mpc = "c2_start" -> "c2_put1"
                 [] OTHER -> "c3_put"
    /\ UNCHANGED <<qitems, unfinished, putLog, getLog, doneLog, paramVars,
                   workerVars, mi, finished, naiveVars, otherVars>>

\* queue.put(object()) / in_queue.put(object()) of the producer
Main_ProducerPut ==
    /\ mpc \in {"c1_put", "c2_put1", "c2_put2", "c3_put"}
    /\ QueuePut(QueueAt(mpc), IF mpc = "c2_put2" THEN 2 ELSE 1)
    /\ mpc' = CASE mpc = "c1_put" -> "c1_join" [] mpc = "c2_put1" -> "c2_put2"
                 [] mpc = "c2_put2" -> "c2_join" [] OTHER -> "c3_join"
    /\ UNCHANGED <<getLog, doneLog, paramVars, workerVars, mi, finished,
                   naiveVars, cpc, otherVars>>

\* thread.join() of the consumer1 / consumer2 examples
Main_ThreadJoin ==
    /\ mpc \in {"c1_join", "c2_join"}
    /\ cpc[ConsumerAt(mpc)] = "finished"
    /\ mpc' = IF mpc = "c1_join" THEN "c2_start" ELSE "c3_start"
    /\ UNCHANGED <<qitems, unfinished, putLog, getLog, doneLog, paramVars,
                   workerVars, mi, finished, naiveVars, cpc, otherVars>>

\* in_queue.join() of the consumer3 example
Main_QueueJoin ==
    /\ mpc = "c3_join"
    /\ QueueJoinReturns(IN_QUEUE)
    /\ mpc' = "s_start"
    /\ UNCHANGED <<qitems, unfinished, putLog, getLog, doneLog, paramVars,
                   workerVars, mi, finished, naiveVars, cpc, otherVars>>

\* consumer2: time.sleep(0.1)
Consumer_Sleep(c) ==
    /\ cpc[c] = "sleep"
    /\ cpc' = [cpc EXCEPT ![c] = "get"]
    /\ UNCHANGED <<qitems, unfinished, putLog, getLog, doneLog, paramVars,
                   workerVars, mpc, mi, finished, naiveVars, otherVars>>

\* consumer1: queue.get(); consumer2: queue.get() twice;
\* consumer3: work = in_queue.get()
Consumer_Get(c) ==
    /\ cpc[c] \in {"get", "get2"}
    /\ QueueGet(QueueOf(c))
    /\ cpc' = [cpc EXCEPT ![c] =
                 CASE c = "consumer2" /\ cpc[c] = "get" -> "get2"
                   [] c = "consumer3" -> "task_done"
                   [] OTHER -> "finished"]
    /\ UNCHANGED <<unfinished, putLog, doneLog, paramVars, workerVars, mpc, mi,
                   finished, naiveVars, otherVars>>

\* consumer3: in_queue.task_done()
Consumer_TaskDone(c) ==
    /\ cpc[c] = "task_done"
    /\ QueueTaskDone(QueueOf(c), getLog[QueueOf(c)][Len(getLog[QueueOf(c)])])
    /\ cpc' = [cpc EXCEPT ![c] = IF TaskDoneFails(QueueOf(c)) THEN "ValueError"
                                 ELSE "finished"]
    /\ UNCHANGED <<qitems, putLog, getLog, paramVars, workerVars, mpc, mi,
                   finished, naiveVars, otherVars>>

\* for thread in threads: thread.start()   (the StoppableWorkers)
\* then `for _ in range(N)` starts again from zero
Main_StartStoppable ==
    /\ mpc = "s_start"
    /\ IF ThreadInitCalled("StoppableWorker")
         THEN /\ spc' = [w \in SW |-> "get"]
              /\ mpc' = "put"
              /\ mi' = 0
         ELSE /\ mpc' = "RuntimeError"
              /\ UNCHANGED <<spc, mi>>
    /\ UNCHANGED <<qitems, unfinished, putLog, getLog, doneLog, paramVars,
                   sitem, finished, naiveVars, cpc, otherVars>>

\* src/prop_v_refactor_attr.py not running
InitNoBucket ==
    /\ quota = 0
    /\ max_quota = 0
    /\ quota_consumed = 0
    /\ elapsed = 0
    /\ ret_plain = "none"
    /\ ret_prop = "none"
    /\ berr = "none"
    /\ lapsed = FALSE
    /\ ncalls = 0

\* src/coroutines.py not running
InitNoLife ==
    /\ height = 0
    /\ width = 0
    /\ rows = << >>
    /\ rows0 = << >>
    /\ progeny = << >>
    /\ gitem = [kind |-> "None"]   \* nothing yielded yet
    /\ gy = 0
    /\ gx = 0
    /\ gstep = 0
    /\ gstate = "None"
    /\ gans = << >>
    /\ yielded = << >>
    /\ sent = << >>
    /\ lgpc = "idle"
    /\ nticks = 0
    /\ gens = 0

\* what is the same at the start of every run
InitCommon ==
    /\ qitems = [q \in QIds |-> << >>]
    /\ unfinished = [q \in QIds |-> 0]
    /\ mi = 0
    /\ finished = -1
    /\ sitem = [w \in SW |-> SENTINEL]
    /\ putLog = [q \in QIds |-> << >>]
    /\ getLog = [q \in QIds |-> << >>]
    /\ doneLog = [q \in QIds |-> << >>]
    /\ myq = [q \in MyQueues |-> << >>]
    /\ npc = [w \in NW |-> "unstarted"]
    /\ nheld = [w \in NW |-> SENTINEL]
    /\ polled_count = [w \in NW |-> 0]
    /\ work_done = [w \in NW |-> 0]
    /\ processed = -1
    /\ cpc = [c \in Consumers |-> "unstarted"]

\* the script's own wiring and close calls: one worker per stage, one close
\* per queue, its own funcs
InitScriptWiring ==
    /\ funcs = "identity"
    /\ shared = FALSE
    /\ nworkers = 3
    /\ ncloses = 1
    /\ nclosed = 0
    /\ misuse = "none"

\* src/lock.py not running
InitNoLock ==
    /\ count = 0
    /\ lock = 0
    /\ tpc = [t \in LT |-> "unstarted"]
    /\ ti = [t \in LT |-> 0]
    /\ ttmp = [t \in LT |-> 0]
    /\ lpc = "idle"
    /\ li = 0
    /\ locking = FALSE
    /\ how_many = 0

\* The script from its first statement: Queue(1) is the only bounded queue,
\* download / resize / upload never raise, no thread is started yet.
Init ==
    /\ InitCommon
    /\ InitScriptWiring
    /\ InitNoLock
    /\ InitNoBucket
    /\ InitNoLife
    /\ maxsize = [q \in QIds |-> IF q = QUEUE_B THEN 1 ELSE 0]
    /\ nitems \in 0 .. MaxItems
    /\ raises = {}
    /\ mpc = "n_start"
    /\ spc = [w \in SW |-> "unstarted"]

Next ==
    \/ \E w \in NW : N_Poll(w)
    \/ \E w \in NW : N_Sleep(w)
    \/ \E w \in NW : N_Work(w)
    \/ Main_StartWorkers
    \/ Main_NPut
    \/ Main_NWait
    \/ Main_StartConsumer
    \/ Main_ProducerPut
    \/ Main_ThreadJoin
    \/ Main_QueueJoin
    \/ \E c \in Consumers : Consumer_Sleep(c)
    \/ \E c \in Consumers : Consumer_Get(c)
    \/ \E c \in Consumers : Consumer_TaskDone(c)
    \/ Main_StartStoppable

Spec == Init /\ [][Next]_vars

(* ------------- the workers' run loops with the driver ------------------ *)
\* The three run() loops executing concurrently with the driver's injection
\* loop and cascade: empty queues, every worker about to call get.  This is
\* the state the two start loops of the driver are written to produce; the
\* script itself stops in Main_StartStoppable before it (ThreadInitCalled).
\* The maxsize of the stage input queues (ClosableQueue() in the script, that
\* is 0) and the items on which a func raises (none in the script) are inputs.
InitPipeline ==
    /\ InitCommon
    /\ InitScriptWiring
    /\ InitNoLock
    /\ InitNoBucket
    /\ InitNoLife
    /\ \E c \in 0 .. MaxCap :
         maxsize = [q \in QIds |-> IF q \in StageQueues THEN c ELSE 0]
    /\ nitems \in 0 .. MaxItems
    /\ raises \in {{}} \cup {{<<w, k>>} : w \in SW, k \in 1 .. nitems}
    /\ mpc = "put"
    /\ spc = [w \in SW |-> "get"]

NextPipeline ==
    \/ \E w \in SW : SW_Get(w)
    \/ \E w \in SW : SW_Body(w)
    \/ \E w \in SW : SW_BodyRaises(w)
    \/ \E w \in SW : SW_TaskDone(w)
    \/ Main_Put
    \/ Main_Close
    \/ Main_Join
    \/ Main_Print

SpecPipeline == InitPipeline /\ [][NextPipeline]_vars

(* ============================ properties =============================== *)
\* the values of a sequence that are not the sentinel, in order
ItemsOf(seq) == SelectSeq(seq, LAMBDA v : v # SENTINEL)
IsPrefix(a, b) == Len(a) <= Len(b) /\ a = SubSeq(b, 1, Len(a))
SentinelOnlyLast(seq) == \A i \in 1 .. Len(seq) : seq[i] = SENTINEL => i = Len(seq)
NoDuplicates(seq) == \A i, j \in 1 .. Len(seq) : seq[i] = seq[j] => i = j
\* the driver is past q.close() / past q.join()
ClosedByMain(q) ==
    CASE q = DOWNLOAD -> mpc \in {"join_download", "close_resize", "join_resize",
                                  "close_upload", "join_upload", "print", "end"}
      [] q = RESIZE -> mpc \in {"join_resize", "close_upload", "join_upload",
                                "print", "end"}
      [] q = UPLOAD -> mpc \in {"join_upload", "print", "end"}
      [] OTHER -> FALSE
JoinReturned(q) ==
    CASE q = DOWNLOAD -> mpc \in {"close_resize", "join_resize", "close_upload",
                                  "join_upload", "print", "end"}
      [] q = RESIZE -> mpc \in {"close_upload", "join_upload", "print", "end"}
      [] q = UPLOAD -> mpc \in {"print", "end"}
      [] OTHER -> FALSE
\* the worker holds a value it has taken and not yet answered with task_done
Holding(w) == spc[w] \in {"body", "finally_next", "finally_return", "finally_unwind"}

\* C1: when the driver stops, it has stopped at its last line, after the
\* cascade returned, and done_queue holds exactly the N injected items, each
\* once.
C1_CascadeDeliversAll ==
    /\ mpc # "RuntimeError"
    /\ mpc = "end" =>
          /\ finished = nitems
          /\ Len(qitems[DONE]) = nitems
          /\ \A k \in 1 .. nitems : \E i \in 1 .. nitems : qitems[DONE][i] = k

\* C2: in every queue the sentinel is the last value ever put and the last
\* value ever taken: nothing is put on a queue after its sentinel.
C2_SentinelLast ==
    \A q \in QIds : SentinelOnlyLast(putLog[q]) /\ SentinelOnlyLast(getLog[q])
\* a stage queue filled by a worker has delivered two items and then the
\* sentinel put by the driver
C2_Witness ==
    \E q \in {RESIZE, UPLOAD} :
        /\ Len(getLog[q]) >= 3
        /\ getLog[q][Len(getLog[q])] = SENTINEL

\* C3: task_done is called exactly once for every value that iteration has
\* taken from a queue, item or sentinel, also when the func raised for it:
\* the answered values are the taken values, in order, without the one the
\* worker still holds.
C3_TaskDoneOncePerGet ==
    \A w \in SW :
        /\ NoDuplicates(doneLog[InQueue(w)])
        /\ doneLog[InQueue(w)] =
              IF Holding(w)
              THEN SubSeq(getLog[InQueue(w)], 1, Len(getLog[InQueue(w)]) - 1)
              ELSE getLog[InQueue(w)]
\* a worker has died of a raising func after an earlier item, and another has
\* left its loop on the sentinel
C3_Witness ==
    \E w, v \in SW :
        /\ spc[w] = "died"
        /\ Len(doneLog[InQueue(w)]) >= 2
        /\ spc[v] = "exited"
        /\ doneLog[InQueue(v)][Len(doneLog[InQueue(v)])] = SENTINEL

\* C4: the sentinel is never yielded: no worker runs the loop body on it, no
\* worker puts it on its output queue (a sentinel is in a queue only after
\* the driver closed that queue, and once), and done_queue never holds it.
C4_SentinelNotYielded ==
    /\ \A w \in SW :
          spc[w] \in {"body", "finally_next", "finally_unwind"} => sitem[w] # SENTINEL
    /\ \A q \in StageQueues :
          Len(putLog[q]) - Len(ItemsOf(putLog[q])) <= IF ClosedByMain(q) THEN 1 ELSE 0
    /\ ItemsOf(putLog[DONE]) = putLog[DONE]
\* the last worker has taken its sentinel and left, two results are in done_queue
C4_Witness ==
    /\ spc[3] = "exited"
    /\ sitem[3] = SENTINEL
    /\ Len(qitems[DONE]) >= 2

\* C5: a stage with one worker puts its results in the order in which the
\* items were put on its input queue; with one worker per stage done_queue
\* ends up holding the items in the order of submission.
C5_FifoSingleWorker ==
    /\ \A w \in SW :
          IsPrefix(ItemsOf(putLog[OutQueue(w)]),
                   [i \in 1 .. Len(ItemsOf(putLog[InQueue(w)])) |->
                       Func(w, ItemsOf(putLog[InQueue(w)])[i])])
    /\ mpc = "end" => qitems[DONE] = [i \in 1 .. nitems |-> i]
\* the run is over with at least two items delivered
C5_Witness ==
    /\ mpc = "end"
    /\ Len(qitems[DONE]) >= 2

\* C6: a queue with maxsize C > 0 never holds more than C values: puts that
\* have completed exceed the gets by at most C (with C = 1 a second put has
\* completed only after a first get).
C6_Backpressure ==
    \A q \in QIds :
        maxsize[q] > 0 =>
            /\ QSize(q) <= maxsize[q]
            /\ Len(putLog[q]) - Len(getLog[q]) <= maxsize[q]
            /\ (maxsize[q] = 1 /\ Len(putLog[q]) >= 2) => Len(getLog[q]) >= 1
\* a queue of capacity 1 is full again after its second put while the
\* producer has a third item to put
C6_Witness ==
    /\ maxsize[DOWNLOAD] = 1
    /\ Len(putLog[DOWNLOAD]) >= 2
    /\ Full(DOWNLOAD)
    /\ mpc = "put"
    /\ mi < nitems

\* C7: unfinished_tasks of a stage input queue is never negative; it is 0
\* only when every value ever put on the queue has been taken and answered
\* with task_done; and it is 0 once the driver's join of the queue returned.
C7_OutstandingCount ==
    \A q \in StageQueues :
        /\ unfinished[q] >= 0
        /\ unfinished[q] = 0 =>
              /\ qitems[q] = << >>
              /\ getLog[q] = putLog[q]
              /\ doneLog[q] = putLog[q]
        /\ JoinReturned(q) => unfinished[q] = 0
\* the whole cascade has returned after at least two items
C7_Witness ==
    /\ mpc = "end"
    /\ \A q \in StageQueues : Len(doneLog[q]) >= 3

\* C8: in_queue.join() can return exactly when task_done has been called for
\* every value ever put on the queue: an empty queue with a value not yet
\* marked done keeps it blocked, a count of zero lets it return at once.
C8_JoinWaitsForTaskDone ==
    mpc = "c3_join" =>
        ((ENABLED Main_QueueJoin) <=> doneLog[IN_QUEUE] = putLog[IN_QUEUE])
\* the producer is in join, the queue is already empty, the item is not yet
\* marked done
C8_Witness ==
    /\ mpc = "c3_join"
    /\ qitems[IN_QUEUE] = << >>
    /\ unfinished[IN_QUEUE] = 1
    /\ ~ENABLED Main_QueueJoin

\* C9: when the driver has stopped, every StoppableWorker has taken a
\* sentinel from its input queue and has left run for good.
C9_WorkersTerminated ==
    mpc \in {"end", "RuntimeError"} =>
        \A w \in SW : spc[w] = "exited" /\ sitem[w] = SENTINEL

\* C10: a worker whose func raised for an item, once that item is accounted
\* as done, is still in its loop (or has left it on the sentinel).
C10_WorkerContinuesAfterFailure ==
    \A w \in SW :
        (\E k \in Items : FuncRaises(w, k) /\ k \in {doneLog[InQueue(w)][i] :
                                    i \in 1 .. Len(doneLog[InQueue(w)])})
            => spc[w] \in {"get", "body", "finally_next", "finally_return", "exited"}

(* ------------------- the three-stage arithmetic example ---------------- *)
\* StoppableWorker(double, ..), (increment, ..), (negate, ..), one worker per
\* stage, ClosableQueue(ScenarioCap) between them, the items 1 .. ScenarioItems
\* injected and the cascade run, with the run loops executing.
InitScenario ==
    /\ InitCommon
    /\ InitNoLock
    /\ InitNoBucket
    /\ InitNoLife
    /\ funcs = "arith"
    /\ shared = FALSE
    /\ nworkers = 3
    /\ ncloses = 1
    /\ nclosed = 0
    /\ misuse = "none"
    /\ maxsize = [q \in QIds |-> IF q \in StageQueues THEN ScenarioCap ELSE 0]
    /\ nitems = ScenarioItems
    /\ raises = {}
    /\ mpc = "put"
    /\ spc = [w \in SW |-> "get"]

NextScenario ==
    \/ \E w \in SW : SW_Get(w)
    \/ \E w \in SW : SW_Body(w)
    \/ \E w \in SW : SW_TaskDone(w)
    \/ Main_Put
    \/ Main_Close
    \/ Main_Join
    \/ Main_Print

SpecScenario == InitScenario /\ [][NextScenario]_vars

SentinelCount(seq) == Len(seq) - Len(ItemsOf(seq))
WorkersOn(q) == {w \in SW : InQueue(w) = q}

\* C12 as stated: when the cascade has returned, done_queue has
\* unfinished_tasks zero and holds as many values as were injected.
C12_CompletionAsStated ==
    mpc \in {"print", "end"} => unfinished[DONE] = 0 /\ QSize(DONE) = nitems
\* C12 amended: when the cascade has returned, every stage input queue has
\* unfinished_tasks zero and done_queue holds as many values as were injected;
\* its own unfinished_tasks equals that number, since nothing takes from it.
C12_Completion ==
    mpc \in {"print", "end"} =>
        /\ \A q \in StageQueues : unfinished[q] = 0
        /\ QSize(DONE) = nitems
        /\ unfinished[DONE] = nitems
        /\ mpc = "end" => finished = nitems
\* the script has printed the count of a run with at least two items, none of
\* them marked done on done_queue
C12_Witness ==
    /\ mpc = "end"
    /\ nitems >= 2
    /\ finished = nitems
    /\ unfinished[DONE] = nitems

\* C13: a stage input queue holds no sentinel before the driver closes it,
\* and from the close on (so before its join returns) it has been given
\* exactly as many sentinels as workers consume from it.
C13_OneSentinelPerWorker ==
    \A q \in StageQueues :
        SentinelCount(putLog[q]) =
            IF ClosedByMain(q) THEN Cardinality(WorkersOn(q)) ELSE 0
\* all three stages are closed and each worker has taken its sentinel
C13_Witness ==
    \A q \in StageQueues :
        /\ JoinReturned(q)
        /\ SentinelCount(getLog[q]) = 1
        /\ Cardinality(WorkersOn(q)) = 1

BeforeStoppableStart ==
    {"n_start", "n_put", "n_wait", "c1_start", "c1_put", "c1_join",
     "c2_start", "c2_put1", "c2_put2", "c2_join", "c3_start", "c3_put",
     "c3_join", "s_start"}

\* C19: once the driver has executed the loop `for thread in threads:
\* thread.start()`, every StoppableWorker is running its run loop (or has
\* already left it).
C19_StartRunsWorkers ==
    mpc \notin BeforeStoppableStart => \A w \in SW : spc[w] # "unstarted"

(* ------------- one ClosableQueue served by several workers -------------- *)
\* A client of the two classes: nworkers StoppableWorkers constructed on the
\* same in_queue (download_queue) and out_queue (resize_queue); the client
\* puts its items, calls close() ncloses times and joins the queue.  A
\* client may also misuse the queue: put once more after its closes, or call
\* task_done once itself, before its first close or after its join.
Misuses == {"none", "late_put", "extra_task_done"}
\* the value logged for a task_done that answers no get
NoItem == 0 - 1

ClosesDone ==
    /\ nclosed = ncloses
    /\ \/ mpc = "stage_close"
       \/ mpc = "put" /\ mi = nitems

\* in_queue.close(), once more
Stage_Close ==
    /\ \/ mpc = "stage_close"
       \/ mpc = "put" /\ mi = nitems
    /\ nclosed < ncloses
    /\ Close(DOWNLOAD)
    /\ nclosed' = nclosed + 1
    /\ mpc' = "stage_close"
    /\ UNCHANGED <<maxsize, mi, nitems, finished, spc, sitem, raises,
                   getLog, doneLog, naiveVars, cpc, funcs, shared, nworkers,
                   ncloses, misuse, lockVars, restVars>>

\* in_queue.put(item) after in_queue.close(): ClosableQueue keeps no record of
\* having been closed, put is Queue.put
Stage_LatePut ==
    /\ ClosesDone
    /\ nclosed >= 1
    /\ misuse = "late_put"
    /\ QueuePut(DOWNLOAD, nitems + 1)
    /\ mpc' = "stage_join"
    /\ UNCHANGED <<maxsize, mi, nitems, finished, spc, sitem, raises,
                   getLog, doneLog, naiveVars, cpc, otherVars>>

\* in_queue.join()
Stage_Join ==
    /\ \/ mpc = "stage_join"
       \/ ClosesDone /\ ~(misuse = "late_put" /\ nclosed >= 1)
    /\ QueueJoinReturns(DOWNLOAD)
    /\ mpc' = IF misuse = "extra_task_done" THEN "stage_extra" ELSE "end"
    /\ UNCHANGED <<qitems, unfinished, maxsize, mi, nitems, finished, spc,
                   sitem, raises, putLog, getLog, doneLog,
                   naiveVars, cpc, otherVars>>

\* in_queue.task_done() called by the client itself
Stage_ExtraTaskDone ==
    /\ misuse = "extra_task_done"
    /\ \/ mpc = "stage_extra"
       \/ mpc = "put" /\ mi = nitems /\ nclosed = 0
    /\ QueueTaskDone(DOWNLOAD, NoItem)
    /\ mpc' = IF TaskDoneFails(DOWNLOAD) THEN "ValueError"
              ELSE IF mpc = "put" THEN "put" ELSE "end"
    /\ misuse' = IF TaskDoneFails(DOWNLOAD) THEN misuse ELSE "extra_called"
    /\ UNCHANGED <<qitems, maxsize, mi, nitems, finished, spc, sitem, raises,
                   putLog, getLog, naiveVars, cpc, funcs, shared, nworkers,
                   ncloses, nclosed, lockVars, restVars>>

InitStage ==
    /\ InitCommon
    /\ InitNoLock
    /\ InitNoBucket
    /\ InitNoLife
    /\ funcs = "identity"
    /\ shared = TRUE
    /\ nworkers \in SW
    /\ ncloses \in 0 .. MaxCloses
    /\ nclosed = 0
    /\ misuse \in Misuses
    /\ maxsize = [q \in QIds |-> 0]
    /\ nitems \in 0 .. MaxStageItems
    /\ raises = {}
    /\ mpc = "put"
    /\ spc = [w \in SW |-> IF w <= nworkers THEN "get" ELSE "unstarted"]

NextStage ==
    \/ \E w \in SW : SW_Get(w)
    \/ \E w \in SW : SW_Body(w)
    \/ \E w \in SW : SW_TaskDone(w)
    \/ Main_Put
    \/ Stage_Close
    \/ Stage_LatePut
    \/ Stage_Join
    \/ Stage_ExtraTaskDone

SpecStage == InitStage /\ [][NextStage]_vars

(* ---------------- close, task_done and put on one queue ----------------- *)
\* the worker has received a sentinel from __iter__'s get
TookSentinel(w) ==
    \/ spc[w] \in {"finally_return", "exited"}
    \/ spc[w] = "ValueError" /\ sitem[w] = SENTINEL

\* C14: after k calls of close() the queue has been given exactly k
\* sentinels through put; each of them is counted in unfinished_tasks like any
\* other value, and the workers that have left their loop on a sentinel are
\* as many as the sentinels taken from the queue.
C14_CloseNotIdempotent ==
    /\ SentinelCount(putLog[DOWNLOAD]) = nclosed
    /\ unfinished[DOWNLOAD] = Len(putLog[DOWNLOAD]) - Len(doneLog[DOWNLOAD])
    /\ Cardinality({w \in SW : TookSentinel(w)}) = SentinelCount(getLog[DOWNLOAD])
    /\ SentinelCount(getLog[DOWNLOAD]) <= nclosed
\* close() was called twice and two workers have each left on one sentinel
C14_Witness ==
    /\ nclosed = 2
    /\ SentinelCount(putLog[DOWNLOAD]) = 2
    /\ Cardinality({w \in SW : spc[w] = "exited"}) = 2

\* C15: unfinished_tasks never goes below zero and task_done never succeeds
\* more often than put; a task_done called by the client after join raises
\* at the client, and when the client's extra call went through, the call
\* that exceeds the number of puts raises in the thread that makes it.
C15_ExcessTaskDoneDetected ==
    /\ \A q \in QIds : /\ unfinished[q] >= 0
                        /\ Len(doneLog[q]) <= Len(putLog[q])
    /\ misuse = "extra_task_done" => mpc # "end"
    /\ ( /\ misuse = "extra_called"
         /\ qitems[DOWNLOAD] = << >>
         /\ \A w \in SW : ~Holding(w) )
       => \E w \in SW : spc[w] = "ValueError"
\* the client's task_done after join has raised, the count is still zero
C15_Witness ==
    /\ mpc = "ValueError"
    /\ Len(putLog[DOWNLOAD]) >= 2
    /\ Len(doneLog[DOWNLOAD]) = Len(putLog[DOWNLOAD])
    /\ unfinished[DOWNLOAD] = 0

\* C16: no item is accepted by the first stage's input queue after a close:
\* in the sequence of values put on it, nothing but sentinels follows a
\* sentinel.
C16_PutAfterCloseRejected ==
    \A i, j \in 1 .. Len(putLog[DOWNLOAD]) :
        (i < j /\ putLog[DOWNLOAD][i] = SENTINEL) => putLog[DOWNLOAD][j] = SENTINEL

\* C18: with several workers on one queue and a single close, never more than
\* one worker receives the sentinel; when join has returned and the client is
\* through, exactly one worker has terminated and each of the others waits in
\* get on the empty queue, with no step left that could wake it.
C18_OneSentinelOneWorker ==
    (nworkers > 1 /\ ncloses = 1 /\ misuse = "none") =>
        /\ Cardinality({w \in SW : TookSentinel(w)}) <= 1
        /\ mpc = "end" =>
              /\ QueueJoinReturns(DOWNLOAD)
              /\ qitems[DOWNLOAD] = << >>
              /\ Cardinality({w \in SW : spc[w] = "exited"}) = 1
              /\ Cardinality({w \in SW : spc[w] = "get"}) = nworkers - 1
              /\ ~ENABLED NextStage
\* three workers, one close, the join has returned: one worker has left, two
\* wait in get
C18_Witness ==
    /\ nworkers = 3
    /\ ncloses = 1
    /\ misuse = "none"
    /\ nitems >= 2
    /\ mpc = "end"
    /\ Cardinality({w \in SW : spc[w] = "get"}) = 2

(* ------------------- src/lock.py: counters and threads ------------------ *)
\* where a call of increment begins: `with self.lock:` for a LockingCounter,
\* the read of self.count for a Counter
EnterIncrement == IF locking THEN "acquire" ELSE "load"
\* variant: the loop of worker makes one increment more
AfterIncrement_OneMore(n) == IF n <= how_many THEN EnterIncrement ELSE "done"
\* worker: `for _ in range(how_many)` after n completed increments
AfterIncrement(n) == IF n < how_many THEN EnterIncrement ELSE "done"

\* variant: entering `with self.lock` without waiting for the lock
T_Acquire_NoWait(t) ==
    /\ tpc[t] = "acquire"
    /\ lock' = t
    /\ tpc' = [tpc EXCEPT ![t] = "load"]
    /\ UNCHANGED <<count, ti, ttmp, lpc, li, locking, how_many, queueVars>>

\* with self.lock:  (Lock.acquire, waits while another thread holds it)
T_Acquire(t) ==
    /\ tpc[t] = "acquire"
    /\ lock = 0
    /\ lock' = t
    /\ tpc' = [tpc EXCEPT ![t] = "load"]
    /\ UNCHANGED <<count, ti, ttmp, lpc, li, locking, how_many, queueVars>>

\* self.count += offset, first half: read self.count
T_Load(t) ==
    /\ tpc[t] = "load"
    /\ ttmp' = [ttmp EXCEPT ![t] = count]
    /\ tpc' = [tpc EXCEPT ![t] = "store"]
    /\ UNCHANGED <<count, lock, ti, lpc, li, locking, how_many, queueVars>>

\* self.count += offset, second half: write the sum back (offset is 1); the
\* value read is consumed.  For a Counter this ends the call of increment.
T_Store(t) ==
    /\ tpc[t] = "store"
    /\ count' = ttmp[t] + 1
    /\ ttmp' = [ttmp EXCEPT ![t] = 0]
    /\ IF locking
         THEN /\ tpc' = [tpc EXCEPT ![t] = "release"]
              /\ UNCHANGED ti
         ELSE /\ ti' = [ti EXCEPT ![t] = @ + 1]
              /\ tpc' = [tpc EXCEPT ![t] = AfterIncrement(ti[t] + 1)]
    /\ UNCHANGED <<lock, lpc, li, locking, how_many, queueVars>>

\* leaving `with self.lock` (Lock.release); increment returns
T_Release(t) ==
    /\ tpc[t] = "release"
    /\ lock' = 0
    /\ ti' = [ti EXCEPT ![t] = @ + 1]
    /\ tpc' = [tpc EXCEPT ![t] = AfterIncrement(ti[t] + 1)]
    /\ UNCHANGED <<count, ttmp, lpc, li, locking, how_many, queueVars>>

\* run_threads: for i in range(5): ... thread.start()
L_Start ==
    /\ lpc = "start"
    /\ tpc' = [tpc EXCEPT ![li + 1] = AfterIncrement(0)]
    /\ li' = IF li + 1 = NumThreads THEN 0 ELSE li + 1
    /\ lpc' = IF li + 1 = NumThreads THEN "join" ELSE "start"
    /\ UNCHANGED <<count, lock, ti, ttmp, locking, how_many, queueVars>>

\* run_threads: for thread in threads: thread.join()
L_Join ==
    /\ lpc = "join"
    /\ tpc[li + 1] = "done"
    /\ li' = IF li + 1 = NumThreads THEN 0 ELSE li + 1
    /\ lpc' = IF li + 1 = NumThreads THEN "print" ELSE "join"
    /\ UNCHANGED <<count, lock, tpc, ti, ttmp, locking, how_many, queueVars>>

\* print('Counter should be %d, found %d' % (5 * how_many, counter.count))
L_Print ==
    /\ lpc = "print"
    /\ lpc' = "end"
    /\ UNCHANGED <<count, lock, tpc, ti, ttmp, li, locking, how_many, queueVars>>

\* src/queue.py not running
InitNoPipeline ==
    /\ InitCommon
    /\ InitScriptWiring
    /\ maxsize = [q \in QIds |-> 0]
    /\ nitems = 0
    /\ raises = {}
    /\ mpc = "idle"
    /\ spc = [w \in SW |-> "unstarted"]

\* counter = LockingCounter(); run_threads(worker, how_many, counter)
InitLocking ==
    /\ InitNoPipeline
    /\ InitNoBucket
    /\ InitNoLife
    /\ count = 0
    /\ lock = 0
    /\ tpc = [t \in LT |-> "unstarted"]
    /\ ti = [t \in LT |-> 0]
    /\ ttmp = [t \in LT |-> 0]
    /\ lpc = "start"
    /\ li = 0
    /\ locking = TRUE
    /\ how_many \in 0 .. MaxHowMany

NextLocking ==
    \/ \E t \in LT : T_Acquire(t)
    \/ \E t \in LT : T_Load(t)
    \/ \E t \in LT : T_Store(t)
    \/ \E t \in LT : T_Release(t)
    \/ L_Start
    \/ L_Join
    \/ L_Print

SpecLocking == InitLocking /\ [][NextLocking]_vars

\* increments completed by the threads 1 .. n together
RECURSIVE Completed(_)
Completed(n) == IF n = 0 THEN 0 ELSE ti[n] + Completed(n - 1)

\* C20: with a LockingCounter, once run_threads has joined its five threads,
\* each of which called increment(1) how_many times, counter.count is
\* 5 * how_many, whatever the interleaving was: at every moment count is the
\* number of increments made so far and at most one thread is inside the
\* `with self.lock` block.
C20_LockedCountExact ==
    /\ lpc \in {"print", "end"} =>
          /\ \A t \in LT : tpc[t] = "done" /\ ti[t] = how_many
          /\ count = NumThreads * how_many
    /\ count = Completed(NumThreads) + Cardinality({t \in LT : tpc[t] = "release"})
    /\ Cardinality({t \in LT : tpc[t] \in {"load", "store", "release"}}) <= 1
\* the locked run has printed after five threads made two increments each
C20_Witness ==
    /\ lpc = "end"
    /\ locking
    /\ how_many >= 2
    /\ count = NumThreads * how_many

(* ------------------- src/lock.py: the unlocked run ---------------------- *)
\* counter = Counter(); run_threads(worker, how_many, counter)
InitUnlocked ==
    /\ InitNoPipeline
    /\ InitNoBucket
    /\ InitNoLife
    /\ count = 0
    /\ lock = 0
    /\ tpc = [t \in LT |-> "unstarted"]
    /\ ti = [t \in LT |-> 0]
    /\ ttmp = [t \in LT |-> 0]
    /\ lpc = "start"
    /\ li = 0
    /\ locking = FALSE
    /\ how_many \in 0 .. MaxHowManyUnlocked

NextUnlocked ==
    \/ \E t \in LT : T_Load(t)
    \/ \E t \in LT : T_Store(t)
    \/ L_Start
    \/ L_Join
    \/ L_Print

SpecUnlocked == InitUnlocked /\ [][NextUnlocked]_vars

\* C21: with a Counter, count never exceeds the number of increments the
\* threads have completed, so it never exceeds 5 * how_many; C21_Witness is a
\* run that ends with count below 5 * how_many.
C21_UnlockedCountAtMost ==
    /\ count <= Completed(NumThreads)
    /\ count <= NumThreads * how_many
    /\ lpc \in {"print", "end"} =>
          \A t \in LT : tpc[t] = "done" /\ ti[t] = how_many
\* all five threads are joined, each made how_many increments, and the
\* printed count is short of 5 * how_many
C21_Witness ==
    /\ lpc = "end"
    /\ ~locking
    /\ how_many >= 1
    /\ \A t \in LT : ti[t] = how_many
    /\ count < NumThreads * how_many

(* ------------- the hand-written pipeline under fair scheduling ---------- *)
\* Every started thread keeps being scheduled (the interpreter switches
\* threads at its switch interval, also out of the busy-wait loop of the
\* main thread), so each step of a polling Worker and of the first driver
\* that stays possible is eventually taken.
FairNaive ==
    /\ \A w \in NW : WF_vars(N_Poll(w)) /\ WF_vars(N_Sleep(w)) /\ WF_vars(N_Work(w))
    /\ WF_vars(Main_StartWorkers)
    /\ WF_vars(Main_NPut)
    /\ WF_vars(Main_NWait)

SpecNaiveFair == Init /\ [][Next]_vars /\ FairNaive

\* the items 1 .. n in the order they were put
FirstItems(n) == [k \in 1 .. n |-> k]
\* how often the value k occurs in a sequence
Occurrences(seq, k) == Cardinality({i \in 1 .. Len(seq) : seq[i] = k})
\* each item put so far is in exactly one place: one of the four MyQueues or
\* the hands of a Worker that has taken it and not yet passed it on
NaiveItemsOnce ==
    \A k \in 1 .. mi :
        Occurrences(myq[1] \o myq[2] \o myq[3] \o myq[4], k)
          + Cardinality({w \in NW : npc[w] = "work" /\ nheld[w] = k}) = 1
\* a get on an empty MyQueue raises IndexError: the Worker goes to sleep and
\* no queue changes
NaiveEmptyGetRemovesNothing ==
    \A w \in NW :
        (N_Poll(w) /\ MyQueueGetRaises(myq[NIn(w)])) =>
            (myq' = myq /\ nheld' = nheld /\ npc'[w] = "sleep")

\* C22: in the MyQueue pipeline under fair scheduling, the busy-wait loop is
\* eventually left with processed = objects and done_queue holding each of
\* the items put exactly once, for good; no item is ever lost or doubled on
\* the way, and a get on an empty MyQueue raises and removes nothing.
C22_NaivePipelineDelivers ==
    /\ <>[](/\ mpc \notin {"n_start", "n_put", "n_wait"}
            /\ processed = nitems
            /\ myq[4] = FirstItems(nitems))
    /\ []NaiveItemsOnce
    /\ [][NaiveEmptyGetRemovesNothing]_vars
\* the first driver has left its busy-wait loop with two or more items
\* processed, and a Worker sleeps after an IndexError
C22_Witness ==
    /\ mpc = "c1_start"
    /\ nitems >= 2
    /\ processed = nitems
    /\ myq[4] = FirstItems(nitems)
    /\ \E w \in NW : npc[w] = "sleep" /\ myq[NIn(w)] = << >>

(* ------------- src/prop_v_refactor_attr.py: the two Buckets ------------- *)
\* The plain-attribute Bucket and the property-based Bucket, constructed at
\* the same moment with the same period and given the same calls.

\* now - bucket.reset_time > bucket.period_delta
Expired == elapsed > Period

\* @property quota: return self.max_quota - self.quota_consumed
QuotaGet(m, c) == m - c

\* @quota.setter: the attributes after `bucket.quota = amount`, and the assert
\* that failed, if one did (the attributes are then as before)
QuotaSet(m, c, amount) ==
    LET delta == m - amount IN
    IF amount = 0
      THEN [max |-> 0, consumed |-> 0, err |-> "none"]
    ELSE IF delta < 0
      THEN IF c = 0 THEN [max |-> amount, consumed |-> c, err |-> "none"]
                    ELSE [max |-> m, consumed |-> c, err |-> "assert_filled"]
    ELSE IF m >= c THEN [max |-> m, consumed |-> c + delta, err |-> "none"]
                   ELSE [max |-> m, consumed |-> c, err |-> "assert_consumed"]

\* time passes
B_Tick ==
    /\ berr = "none"
    /\ elapsed <= Period
    /\ elapsed' = elapsed + 1
    /\ UNCHANGED <<quota, max_quota, quota_consumed, ret_plain, ret_prop, berr,
                   lapsed, ncalls, pipeVars, lockVars, lifeVars>>

\* fill(bucket, amount) on both Buckets
B_Fill(amount) ==
    /\ berr = "none"
    /\ ncalls < MaxCalls
    /\ ncalls' = ncalls + 1
    /\ lapsed' = (lapsed \/ Expired)
    /\ elapsed' = IF Expired THEN 0 ELSE elapsed
    /\ quota' = (IF Expired THEN 0 ELSE quota) + amount
    /\ LET r == IF Expired THEN QuotaSet(max_quota, quota_consumed, 0)
                ELSE [max |-> max_quota, consumed |-> quota_consumed, err |-> "none"]
           f == QuotaSet(r.max, r.consumed, QuotaGet(r.max, r.consumed) + amount)
       IN /\ max_quota' = f.max
          /\ quota_consumed' = f.consumed
          /\ berr' = f.err
    /\ UNCHANGED <<ret_plain, ret_prop, pipeVars, lockVars, lifeVars>>

\* deduct(bucket, amount) on both Buckets
B_Deduct(amount) ==
    /\ berr = "none"
    /\ ncalls < MaxCalls
    /\ ncalls' = ncalls + 1
    /\ lapsed' = (lapsed \/ Expired)
    /\ IF Expired
         THEN /\ ret_plain' = "False"
              /\ ret_prop' = "False"
              /\ UNCHANGED <<quota, max_quota, quota_consumed, berr>>
         ELSE /\ IF quota - amount < 0
                   THEN ret_plain' = "False" /\ UNCHANGED quota
                   ELSE ret_plain' = "True" /\ quota' = quota - amount
              /\ IF QuotaGet(max_quota, quota_consumed) - amount < 0
                   THEN /\ ret_prop' = "False"
                        /\ UNCHANGED <<max_quota, quota_consumed, berr>>
                   ELSE LET d == QuotaSet(max_quota, quota_consumed,
                                          QuotaGet(max_quota, quota_consumed) - amount)
                        IN /\ max_quota' = d.max
                           /\ quota_consumed' = d.consumed
                           /\ berr' = d.err
                           /\ ret_prop' = IF d.err = "none" THEN "True"
                                          ELSE "AssertionError"
    /\ UNCHANGED <<elapsed, pipeVars, lockVars, lifeVars>>

\* bucket = Bucket(period): quota, max_quota and quota_consumed are 0 and
\* reset_time is now
InitBucket ==
    /\ InitNoPipeline
    /\ InitNoLock
    /\ InitNoBucket
    /\ InitNoLife

NextBucket ==
    \/ B_Tick
    \/ \E amount \in 0 .. MaxAmount : B_Fill(amount)
    \/ \E amount \in 0 .. MaxAmount : B_Deduct(amount)

SpecBucket == InitBucket /\ [][NextBucket]_vars

\* C23: as long as no call has found the period expired, the two Buckets
\* have returned the same from the last deduct and report the same quota.
C23_BucketsAgree ==
    ~lapsed => /\ ret_prop = ret_plain
               /\ QuotaGet(max_quota, quota_consumed) = quota

\* C24: no assert of the quota setter has failed.
C24_SetterAssertsHold == berr = "none"

\* C25: the quota of neither Bucket is ever negative.
C25_QuotaNeverNegative ==
    /\ quota >= 0
    /\ QuotaGet(max_quota, quota_consumed) >= 0

(* ------------------- src/coroutines.py: Game of Life -------------------- *)
ALIVE == "*"
EMPTY == "-"
\* what a generator receives from next(it)
NONE == "None"
\* what a driver can send
Answers == {ALIVE, EMPTY, NONE}

Query(y, x) == [kind |-> "Query", y |-> y, x |-> x]
Transition(y, x, state) == [kind |-> "Transition", y |-> y, x |-> x, state |-> state]
TICK == [kind |-> "TICK"]
NothingYielded == [kind |-> "None"]

\* variant: the fifth query asks for the south-east cell once more
NeighborQuery_SoutheastTwice(y, x, k) ==
    CASE k = 1 -> Query(y + 1, x + 0)
      [] k = 2 -> Query(y + 1, x + 1)
      [] k = 3 -> Query(y + 0, x + 1)
      [] k = 4 -> Query(y - 1, x + 1)
      [] k = 5 -> Query(y - 1, x + 1)
      [] k = 6 -> Query(y - 1, x - 1)
      [] k = 7 -> Query(y + 0, x - 1)
      [] OTHER -> Query(y + 1, x - 1)
\* count_neighbors: the k-th value it yields
NeighborQuery(y, x, k) ==
    CASE k = 1 -> Query(y + 1, x + 0)
      [] k = 2 -> Query(y + 1, x + 1)
      [] k = 3 -> Query(y + 0, x + 1)
      [] k = 4 -> Query(y - 1, x + 1)
      [] k = 5 -> Query(y - 1, x + 0)
      [] k = 6 -> Query(y - 1, x - 1)
      [] k = 7 -> Query(y + 0, x - 1)
      [] OTHER -> Query(y + 1, x - 1)

\* count_neighbors: for state in neighbor_states: if state == ALIVE: count += 1
RECURSIVE CountAlive(_)
CountAlive(states) ==
    IF states = << >> THEN 0
    ELSE (IF Head(states) = ALIVE THEN 1 ELSE 0) + CountAlive(Tail(states))

game_logic(state, neighbors) ==
    IF state = ALIVE
      THEN IF neighbors < 2 THEN EMPTY
           ELSE IF neighbors > 3 THEN EMPTY
           ELSE state
      ELSE IF neighbors = 3 THEN ALIVE
           ELSE state

\* step_cell(y, x) resumed with the value v after it has yielded gstep values
\* (fewer than ten): what it yields next
StepCellResume(v) ==
    IF gstep = 0
      THEN /\ gitem' = Query(gy, gx)
           /\ gstep' = 1
           /\ UNCHANGED <<gstate, gans>>
    ELSE IF gstep = 1
      THEN /\ gstate' = v
           /\ gitem' = NeighborQuery(gy, gx, 1)
           /\ gstep' = 2
           /\ UNCHANGED gans
    ELSE IF gstep < 9
      THEN /\ gans' = Append(gans, v)
           /\ gitem' = NeighborQuery(gy, gx, gstep)
           /\ gstep' = gstep + 1
           /\ UNCHANGED gstate
    ELSE /\ gans' = Append(gans, v)
         /\ gitem' = Transition(gy, gx, game_logic(gstate, CountAlive(Append(gans, v))))
         /\ gstep' = 10
         /\ UNCHANGED gstate

(* ------------------ a step_cell generator and its driver ---------------- *)
\* coordinates given to the step_cell under test
CellCoords == 0 .. 1

\* it = step_cell(y, x); next(it)
Cell_Next ==
    /\ lgpc = "cell_new"
    /\ StepCellResume(NONE)
    /\ yielded' = Append(yielded, gitem')
    /\ lgpc' = "cell_driving"
    /\ UNCHANGED <<height, width, rows, rows0, progeny, gy, gx, sent, nticks, gens,
                   pipeVars, lockVars, bucketVars>>

\* it.send(v) while step_cell has more to yield
Cell_Send(v) ==
    /\ lgpc = "cell_driving"
    /\ gstep \in 1 .. 9
    /\ StepCellResume(v)
    /\ sent' = Append(sent, v)
    /\ yielded' = Append(yielded, gitem')
    /\ UNCHANGED <<height, width, rows, rows0, progeny, gy, gx, lgpc, nticks, gens,
                   pipeVars, lockVars, bucketVars>>

\* it.send(v) or next(it) after the Transition: step_cell returns, the call
\* raises StopIteration
Cell_Exhausted ==
    /\ lgpc = "cell_driving"
    /\ gstep = 10
    /\ lgpc' = "StopIteration"
    /\ gitem' = NothingYielded
    /\ UNCHANGED <<height, width, rows, rows0, progeny, gy, gx, gstep, gstate, gans,
                   yielded, sent, nticks, gens, pipeVars, lockVars, bucketVars>>

InitStepCell ==
    /\ InitNoPipeline
    /\ InitNoLock
    /\ InitNoBucket
    /\ height = 0
    /\ width = 0
    /\ rows = << >>
    /\ rows0 = << >>
    /\ progeny = << >>
    /\ gitem = NothingYielded
    /\ gy \in CellCoords
    /\ gx \in CellCoords
    /\ gstep = 0
    /\ gstate = NONE
    /\ gans = << >>
    /\ yielded = << >>
    /\ sent = << >>
    /\ lgpc = "cell_new"
    /\ nticks = 0
    /\ gens = 0

NextStepCell ==
    \/ Cell_Next
    \/ \E v \in Answers : Cell_Send(v)
    \/ Cell_Exhausted

SpecStepCell == InitStepCell /\ [][NextStepCell]_vars

\* the offsets (dy, dx) of the eight neighbours: N, NE, E, SE, S, SW, W, NW
NeighborOffsets ==
    << <<1, 0>>, <<1, 1>>, <<0, 1>>, <<-1, 1>>, <<-1, 0>>, <<-1, -1>>, <<0, -1>>, <<1, -1>> >>

\* the i-th value of the protocol of step_cell(gy, gx), given what was sent
ProtocolItem(i) ==
    IF i = 1 THEN Query(gy, gx)
    ELSE IF i <= 9
      THEN Query(gy + NeighborOffsets[i - 1][1], gx + NeighborOffsets[i - 1][2])
    ELSE Transition(gy, gx,
                    game_logic(sent[1],
                               Cardinality({j \in 2 .. 9 : sent[j] = ALIVE})))

GridNew(h, w) == [y \in 0 .. h - 1 |-> [x \in 0 .. w - 1 |-> EMPTY]]
\* Grid.query
GridQuery(r, y, x) == r[y % height][x % width]
\* Grid.assign
GridAssign(r, y, x, state) == [r EXCEPT ![y % height][x % width] = state]

\* range(height) x range(width) is empty
NoCells == height = 0 \/ width = 0

\* simulate(height, width) resumed with the value v: the running step_cell
\* goes on; when it has returned, the loops go to the next cell and start its
\* step_cell, or, after the last cell, TICK is yielded; the generator then
\* stands at the start of the next round of `while True`.
SimResume(v) ==
    IF gstep = 0 /\ NoCells
      THEN /\ gitem' = TICK
           /\ nticks' = nticks + 1
           /\ UNCHANGED <<gy, gx, gstep, gstate, gans>>
    ELSE IF gstep < 10
      THEN /\ StepCellResume(v)
           /\ UNCHANGED <<gy, gx, nticks>>
    ELSE IF gy = height - 1 /\ gx = width - 1
      THEN /\ gitem' = TICK
           /\ nticks' = nticks + 1
           /\ gy' = 0
           /\ gx' = 0
           /\ gstep' = 0
           /\ gstate' = NONE
           /\ gans' = << >>
    ELSE /\ gy' = IF gx < width - 1 THEN gy ELSE gy + 1
         /\ gx' = IF gx < width - 1 THEN gx + 1 ELSE 0
         /\ gitem' = Query(gy', gx')
         /\ gstep' = 1
         /\ gstate' = NONE
         /\ gans' = << >>
         /\ UNCHANGED nticks

\* live_a_generation(grid, sim): progeny = Grid(...); item = next(sim)
LG_Call ==
    /\ lgpc = "call"
    /\ rows0' = rows
    /\ progeny' = GridNew(height, width)
    /\ SimResume(NONE)
    /\ lgpc' = "loop"
    /\ UNCHANGED <<height, width, rows, yielded, sent, gens,
                   pipeVars, lockVars, bucketVars>>

\* variant: the Query is answered from the grid being built
LG_Query_FromProgeny ==
    /\ lgpc = "loop"
    /\ gitem.kind = "Query"
    /\ SimResume(GridQuery(progeny, gitem.y, gitem.x))
    /\ UNCHANGED <<height, width, rows, rows0, progeny, yielded, sent, lgpc, gens,
                   pipeVars, lockVars, bucketVars>>

\* isinstance(item, Query): state = grid.query(item.y, item.x);
\* item = sim.send(state)
LG_Query ==
    /\ lgpc = "loop"
    /\ gitem.kind = "Query"
    /\ SimResume(GridQuery(rows, gitem.y, gitem.x))
    /\ UNCHANGED <<height, width, rows, rows0, progeny, yielded, sent, lgpc, gens,
                   pipeVars, lockVars, bucketVars>>

\* else: progeny.assign(item.y, item.x, item.state); item = next(sim)
LG_Transition ==
    /\ lgpc = "loop"
    /\ gitem.kind = "Transition"
    /\ progeny' = GridAssign(progeny, gitem.y, gitem.x, gitem.state)
    /\ SimResume(NONE)
    /\ UNCHANGED <<height, width, rows, rows0, yielded, sent, lgpc, gens,
                   pipeVars, lockVars, bucketVars>>

\* item is TICK: return progeny
LG_Return ==
    /\ lgpc = "loop"
    /\ gitem.kind = "TICK"
    /\ lgpc' = "returned"
    /\ gens' = gens + 1
    /\ UNCHANGED <<height, width, rows, rows0, progeny, gitem, gy, gx, gstep, gstate,
                   gans, yielded, sent, nticks, pipeVars, lockVars, bucketVars>>

\* grid = live_a_generation(grid, sim), and the next round of the loop
LG_Again ==
    /\ lgpc = "returned"
    /\ gens < MaxGens
    /\ rows' = progeny
    /\ nticks' = 0
    /\ lgpc' = "call"
    /\ UNCHANGED <<height, width, rows0, progeny, gitem, gy, gx, gstep, gstate,
                   gans, yielded, sent, gens, pipeVars, lockVars, bucketVars>>

\* grid = Grid(height, width) with any cells assigned ALIVE;
\* sim = simulate(grid.height, grid.width)
InitLife ==
    /\ InitNoPipeline
    /\ InitNoLock
    /\ InitNoBucket
    /\ height \in 0 .. MaxHeight
    /\ width \in 0 .. MaxWidth
    /\ rows \in [0 .. height - 1 -> [0 .. width - 1 -> {ALIVE, EMPTY}]]
    /\ rows0 = rows
    /\ progeny = << >>
    /\ gitem = NothingYielded
    /\ gy = 0
    /\ gx = 0
    /\ gstep = 0
    /\ gstate = NONE
    /\ gans = << >>
    /\ yielded = << >>
    /\ sent = << >>
    /\ lgpc = "call"
    /\ nticks = 0
    /\ gens = 0

NextLife ==
    \/ LG_Call
    \/ LG_Query
    \/ LG_Transition
    \/ LG_Return
    \/ LG_Again

SpecLife == InitLife /\ [][NextLife]_vars

\* one generation of the game computed directly from a grid: each cell gets
\* game_logic of its state and of the number of ALIVE cells at its eight
\* neighbour positions, indices wrapping around
LifeStep(r) ==
    [y \in 0 .. height - 1 |-> [x \in 0 .. width - 1 |->
        game_logic(r[y][x],
                   Cardinality({k \in 1 .. 8 :
                       r[(y + NeighborOffsets[k][1]) % height]
                        [(x + NeighborOffsets[k][2]) % width] = ALIVE}))]]

\* C27: during live_a_generation(grid, sim) grid stays as it was; when it
\* returns, sim has yielded exactly one TICK and stands at the start of the
\* next generation, and the Grid returned holds for every cell game_logic of
\* its old state and of the number of ALIVE cells among its eight neighbours
\* in the old grid.
C27_LiveAGeneration ==
    /\ lgpc \in {"loop", "returned"} => rows = rows0
    /\ lgpc = "loop" => nticks = (IF gitem.kind = "TICK" THEN 1 ELSE 0)
    /\ lgpc = "returned" =>
          /\ gitem = TICK
          /\ nticks = 1
          /\ gstep = 0 /\ gy = 0 /\ gx = 0
          /\ progeny = LifeStep(rows0)
\* a call has returned a grid in which a cell that was EMPTY is ALIVE
C27_Witness ==
    /\ lgpc = "returned"
    /\ \E y \in 0 .. height - 1 : \E x \in 0 .. width - 1 :
          rows0[y][x] = EMPTY /\ progeny[y][x] = ALIVE

=============================================================================
